---- MODULE Spec2Model ----
(***************************************************************************)
(* PicoServe: the startup registration of the route table (server.ts,      *)
(* api/loader.ts, api/proxy.ts) and the dispatch of requests against it.   *)
(*                                                                         *)
(* Strings that the code inspects (request paths, rule paths, targets) are *)
(* sequences of one-character strings; filenames are sequences of tokens   *)
(* (<<"hello", ".ts">>), so that endsWith, startsWith and includes are     *)
(* computed and not assumed.                                               *)
(***************************************************************************)
EXTENDS Integers, Sequences, FiniteSets, TLC

\* ------------------------------------------------------------------------
\* Bounds of the model

MaxRules == 2

MaxFiles == 2

MaxRequests == 3

\* the pieces a text of the config file is made of
MaxChunks == 3

\* the requests in flight at the same time
MaxInflight == 2

Clients == {"c1", "c2"}

\* ------------------------------------------------------------------------
\* JavaScript values, as far as the code looks at them.  Every value has the
\* same shape so that any two can be compared.

Undef == [t |-> "undefined", s |-> <<>>, n |-> 0, b |-> FALSE]

Null == [t |-> "null", s |-> <<>>, n |-> 0, b |-> FALSE]

Str(chars) == [t |-> "string", s |-> chars, n |-> 0, b |-> FALSE]

Num(k) == [t |-> "number", s |-> <<>>, n |-> k, b |-> FALSE]

Bool(v) == [t |-> "boolean", s |-> <<>>, n |-> 0, b |-> v]

\* a function; s names what it does when it is called
Func(does) == [t |-> "function", s |-> <<does>>, n |-> 0, b |-> FALSE]

\* !x
Truthy(x) ==
  CASE x.t = "undefined" -> FALSE
    [] x.t = "null" -> FALSE
    [] x.t = "string" -> x.s # <<>>
    [] x.t = "number" -> x.n # 0
    [] x.t = "boolean" -> x.b
    [] OTHER -> TRUE

\* a || b
Or(a, b) == IF Truthy(a) THEN a ELSE b

\* String.prototype.startsWith
StartsWith(s, prefix) ==
  /\ Len(prefix) <= Len(s)
  /\ SubSeq(s, 1, Len(prefix)) = prefix

\* String.prototype.endsWith
EndsWith(s, suffix) ==
  /\ Len(suffix) <= Len(s)
  /\ SubSeq(s, Len(s) - Len(suffix) + 1, Len(s)) = suffix

\* String.prototype.includes
Includes(s, part) ==
  \E i \in 1..(Len(s) + 1) :
    /\ i + Len(part) - 1 <= Len(s)
    /\ SubSeq(s, i, i + Len(part) - 1) = part

\* ------------------------------------------------------------------------
\* Program constants

\* the global limiter: 15 * 60 * 1000 ms, max 1000
GlobalWindowMs == 900000

GlobalMax == 1000

\* the defaults of a rule's limiter: 60 * 1000 ms, max 100
DefaultWindowMs == 60000

DefaultMax == 100

\* ------------------------------------------------------------------------
\* Paths: "/health", the rule paths "/a" and "/a/v" (think /api and /api/v2)
\* and the request paths of the model.

HealthPath == <<"/", "h">>

PathA == <<"/", "a">>

PathAV == <<"/", "a", "/", "v">>

PathAVX == <<"/", "a", "/", "v", "/", "x">>

PathAF == <<"/", "a", "f">>

PathP == <<"/", "p">>

PathZ == <<"/", "z">>

RequestPaths == {HealthPath, PathAVX, PathAF, PathP}

\* an upstream URL, and a target whose placeholder ${X} was left unresolved
Url == <<"u">>

Unresolved == <<"$", "{", "X", "}">>

\* ------------------------------------------------------------------------
\* Proxy rules (types.ts ProxyConfig) as JSON.parse returns them

NoRateLimit == [present |-> FALSE, enabled |-> Undef, windowMs |-> Undef, max |-> Undef]

RateLimit(enabled, windowMs, max) ==
  [present |-> TRUE, enabled |-> enabled, windowMs |-> windowMs, max |-> max]

\* options: besides target and rateLimit, the authorization header of
\* options.headers, whether pathRewrite removes the rule's path from the URL
\* ({ "^/api": "" }), and the callbacks onProxyReq, onProxyRes and onError
NoOptions ==
  [present |-> FALSE, hasTarget |-> FALSE, target |-> Undef, rateLimit |-> NoRateLimit,
   authorization |-> Undef, pathRewrite |-> FALSE,
   onProxyReq |-> Undef, onProxyRes |-> Undef, onError |-> Undef]

Options(hasTarget, target, rateLimit) ==
  [NoOptions EXCEPT !.present = TRUE, !.hasTarget = hasTarget, !.target = target,
                    !.rateLimit = rateLimit]

Rule(path, target, options) ==
  [isNull |-> FALSE, path |-> path, target |-> target, options |-> options]

\* the JSON value null in the place of a rule
NullRule == [isNull |-> TRUE, path |-> Undef, target |-> Undef, options |-> NoOptions]

\* { path: "/a", target: url }
RuleA == Rule(Str(PathA), Str(Url), NoOptions)

\* { path: "/a/v", target: url, options: { rateLimit: { windowMs: 1000, max: 1 } } }
RuleAV ==
  Rule(Str(PathAV), Str(Url), Options(FALSE, Undef, RateLimit(Undef, Num(1000), Num(1))))

\* { path: "/a", target: url, options: { rateLimit: { enabled: false } } }
RuleNoLimit ==
  Rule(Str(PathA), Str(Url), Options(FALSE, Undef, RateLimit(Bool(FALSE), Undef, Undef)))

\* { path: "/a", target: "${X}" } with X undefined
RuleUnresolved == Rule(Str(PathA), Str(Unresolved), NoOptions)

\* { path: "/a" }
RuleNoTarget == Rule(Str(PathA), Undef, NoOptions)

\* { target: url }
RuleNoPath == Rule(Undef, Str(Url), NoOptions)

\* { path: "/a", target: 8080 }
RuleNumTarget == Rule(Str(PathA), Num(8080), NoOptions)

\* { path: "/a", target: url, options: { target: "" } }
RuleEmptyOptTarget == Rule(Str(PathA), Str(Url), Options(TRUE, Str(<<>>), NoRateLimit))

\* { path: "/a/v/x/", target: url }
RuleSlash == Rule(Str(PathAVX \o <<"/">>), Str(Url), NoOptions)

\* { path: "/a", target: url, options: { pathRewrite: { "^/a": "" },
\*   headers: { authorization: "s" } } }
RuleRewrite ==
  Rule(Str(PathA), Str(Url),
       [Options(FALSE, Undef, NoRateLimit) EXCEPT !.pathRewrite = TRUE,
                                                  !.authorization = Str(<<"s">>)])

\* a rule /a whose options hold the three callbacks
RuleCallbacks(onProxyReq, onError) ==
  Rule(Str(PathA), Str(Url),
       [Options(FALSE, Undef, NoRateLimit) EXCEPT !.onProxyReq = Func(onProxyReq),
                                                  !.onProxyRes = Func("nothing"),
                                                  !.onError = Func(onError)])

\* { path: "/a", target: url, options: { rateLimit: { max: 0 } } }
RuleZeroMax ==
  Rule(Str(PathA), Str(Url), Options(FALSE, Undef, RateLimit(Undef, Undef, Num(0))))

\* { path: "/a", target: url, options: { target: "w" } }
RuleOtherTarget == Rule(Str(PathA), Str(Url), Options(TRUE, Str(<<"w">>), NoRateLimit))

\* { path: "/", target: url }
RuleRoot == Rule(Str(<<"/">>), Str(Url), NoOptions)

\* { path: "/h", target: url }, the path of the health route
RuleHealth == Rule(Str(HealthPath), Str(Url), NoOptions)

RuleSet ==
  {RuleA, RuleAV, RuleNoLimit, RuleUnresolved, RuleNoTarget, RuleNoPath,
   RuleNumTarget, RuleEmptyOptTarget, RuleSlash, NullRule}

\* ------------------------------------------------------------------------
\* The proxy config file: whether it exists, whether its text (after the
\* substitution of the environment variables) parses as JSON, and the value
\* of 'proxies' in the parsed document: an array of rules, or something else
\* (a single rule object, say).

ConfigFile(exists, parses, isArray, items) ==
  [exists |-> exists, parses |-> parses, isArray |-> isArray, items |-> items]

AbsentFile == ConfigFile(FALSE, FALSE, FALSE, <<>>)

MalformedFile == ConfigFile(TRUE, FALSE, FALSE, <<>>)

NotArrayFile == ConfigFile(TRUE, TRUE, FALSE, <<RuleA>>)

Document(rules) == ConfigFile(TRUE, TRUE, TRUE, rules)

\* the value null of loadProxyConfig, in the shape of its other results
NoProxies == [isNull |-> TRUE, items |-> <<>>]

\* proxy.ts loadProxyConfig, without the Array.isArray test
LoadProxyConfigAnyShape(file) ==
  IF ~file.exists THEN NoProxies
  ELSE IF ~file.parses THEN NoProxies
  ELSE [isNull |-> FALSE, items |-> file.items]

\* proxy.ts loadProxyConfig
LoadProxyConfig(file) ==
  IF ~file.exists THEN NoProxies
  ELSE IF ~file.parses THEN NoProxies
  ELSE IF ~file.isArray THEN NoProxies
  ELSE [isNull |-> FALSE, items |-> file.items]

\* ------------------------------------------------------------------------
\* proxy.ts substituteEnvVariables: content.replace(/\$\{([^}]+)\}/g, callback)
\* over a text, a sequence of characters, and process.env, a function from
\* names to values

\* process.env[varName]
EnvValue(env, varName) == IF varName \in DOMAIN env THEN env[varName] ELSE Undef

\* !envValue
IsFalsy(envValue) == ~Truthy(envValue)

\* envValue === undefined
IsUndefined(envValue) == envValue.t = "undefined"

\* the position of the first "}" of text from i on, 0 when there is none
RECURSIVE IndexOfClose(_, _)
IndexOfClose(text, i) ==
  IF i > Len(text) THEN 0
  ELSE IF text[i] = "}" THEN i
  ELSE IndexOfClose(text, i + 1)

\* the regular expression at position i: "${", one character or more other
\* than "}", and "}"; the position of the closing brace, 0 when it does not
\* match
MatchAt(text, i) ==
  IF i + 1 <= Len(text) /\ text[i] = "$" /\ text[i + 1] = "{"
  THEN LET j == IndexOfClose(text, i + 2) IN IF j > i + 2 THEN j ELSE 0
  ELSE 0

\* replace with the flag g, from position i on: the text and the names warned
\* about
RECURSIVE Replace(_, _, _)
Replace(content, env, i) ==
  IF i > Len(content) THEN [text |-> <<>>, warned |-> <<>>]
  ELSE LET j == MatchAt(content, i) IN
    IF j = 0
    THEN LET rest == Replace(content, env, i + 1)
         IN  [text |-> <<content[i]>> \o rest.text, warned |-> rest.warned]
    ELSE LET match == SubSeq(content, i, j)
             varName == SubSeq(content, i + 2, j - 1)
             envValue == EnvValue(env, varName)
             rest == Replace(content, env, j + 1)
         IN  IF IsUndefined(envValue)
             THEN [text |-> match \o rest.text, warned |-> <<varName>> \o rest.warned]
             ELSE [text |-> envValue.s \o rest.text, warned |-> rest.warned]

SubstituteEnvVariables(content, env) == Replace(content, env, 1)

\* ------------------------------------------------------------------------
\* The route table: the stack of the Express app, a sequence of layers

\* the body of a response; thousandths is the number of seconds of a limiter's
\* message times 1000
NoBody ==
  [kind |-> "none", error |-> "", message |-> "", max |-> 0, thousandths |-> 0,
   target |-> Undef, details |-> FALSE, path |-> <<>>]

\* a layer; message is the answer of a limiter that refuses, proxy the rule of
\* a forwarding handler
Layer(kind, mount, path, owner, rule, windowMs, max) ==
  [kind |-> kind, mount |-> mount, path |-> path, owner |-> owner, rule |-> rule,
   windowMs |-> windowMs, max |-> max, message |-> NoBody, proxy |-> NullRule]

Root == <<"/">>

\* server.ts: message of the global limiter
GlobalMessage ==
  [NoBody EXCEPT !.kind = "text",
                 !.message = "Too many requests from this IP, please try again later."]

\* the global limiter is mounted on the health route only
GlobalLimiterOnHealth ==
  [Layer("limiter", HealthPath, <<>>, <<>>, 0, GlobalWindowMs, GlobalMax)
     EXCEPT !.message = GlobalMessage]

\* server.ts: app.use(limiter); the limiter of rule 0 is the global one
GlobalLimiter ==
  [Layer("limiter", Root, <<>>, <<>>, 0, GlobalWindowMs, GlobalMax)
     EXCEPT !.message = GlobalMessage]

\* server.ts: app.use(cors(...))
Cors == Layer("cors", Root, <<>>, <<>>, 0, 0, 0)

\* server.ts: app.use(express.json())
JsonBody == Layer("json", Root, <<>>, <<>>, 0, 0, 0)

\* app.get(path, handler), registered by the server or by a plugin file
Route(path, owner) == Layer("route", Root, path, owner, 0, 0, 0)

Server == <<"server">>

\* the health route answers another path
HealthRouteElsewhere == Route(PathZ, Server)

\* server.ts: app.get('/health', ...)
HealthRoute == Route(HealthPath, Server)

\* server.ts: app.use(express.static(staticPath))
StaticHandler == Layer("static", Root, <<>>, Server, 0, 0, 0)

\* server.ts: the SPA fallback, app.use((req, res) => res.sendFile(index.html))
SpaFallback == Layer("spa", Root, <<>>, Server, 0, 0, 0)

\* the files of the static directory, by request path
StaticFiles == {PathP}

\* ------------------------------------------------------------------------
\* api/proxy.ts: the default export

PlaceholderOpen == <<"$", "{">>

\* the name of the plugin of api/proxy.ts, the owner of the layers it registers
ProxyName == <<"proxy">>

\* proxy.path or proxy.target.includes raises a TypeError, outside the try
RuleThrows(rule) ==
  \/ rule.isNull
  \/ /\ Truthy(rule.path)
     /\ Truthy(rule.target)
     /\ rule.target.t # "string"

\* the two 'continue' of the loop
RuleSkipped(rule) ==
  \/ ~Truthy(rule.path)
  \/ ~Truthy(rule.target)
  \/ Includes(rule.target.s, PlaceholderOpen)

\* rateLimitConfig.enabled !== false
LimiterEnabled(rule) ==
  ~(rule.options.present /\ rule.options.rateLimit.present
    /\ rule.options.rateLimit.enabled = Bool(FALSE))

\* rateLimitConfig.windowMs || 60 * 1000
RuleWindowMs(rule) ==
  IF rule.options.present /\ rule.options.rateLimit.present
  THEN Or(rule.options.rateLimit.windowMs, Num(DefaultWindowMs)).n
  ELSE DefaultWindowMs

\* rateLimitConfig.max || 100
RuleMax(rule) ==
  IF rule.options.present /\ rule.options.rateLimit.present
  THEN Or(rule.options.rateLimit.max, Num(DefaultMax)).n
  ELSE DefaultMax

\* the message states the default max whatever the rule says
RuleMessageDefaultMax(rule) ==
  [NoBody EXCEPT !.kind = "json", !.error = "Too many requests",
                 !.message = "Please slow down. Maximum <max> requests per <seconds> seconds.",
                 !.max = DefaultMax,
                 !.thousandths = RuleWindowMs(rule)]

\* message: { error, message: `Please slow down. Maximum ${rateLimitConfig.max ||
\* 100} requests per ${(rateLimitConfig.windowMs || 60000) / 1000} seconds.` }
RuleMessage(rule) ==
  [NoBody EXCEPT !.kind = "json", !.error = "Too many requests",
                 !.message = "Please slow down. Maximum <max> requests per <seconds> seconds.",
                 !.max = RuleMax(rule),
                 !.thousandths = RuleWindowMs(rule)]

\* app.use(proxy.path, limiter)
RuleLimiter(rule, k) ==
  [Layer("limiter", rule.path.s, <<>>, ProxyName, k, RuleWindowMs(rule), RuleMax(rule))
     EXCEPT !.message = RuleMessage(rule)]

\* { target: proxy.target, changeOrigin: true, ...proxy.options, on, pathFilter }
EffectiveTarget(rule) ==
  IF rule.options.present /\ rule.options.hasTarget
  THEN rule.options.target
  ELSE rule.target

\* createProxyMiddleware throws when its options hold no target
HandlerThrows(rule) == ~Truthy(EffectiveTarget(rule))

\* app.use(createProxyMiddleware(filterOptions))
RuleHandler(rule, k) ==
  [Layer("proxy", Root, rule.path.s, ProxyName, k, 0, 0) EXCEPT !.proxy = rule]

\* the layers one turn of the loop registers
RuleLayers(rule, k) ==
  IF RuleSkipped(rule) THEN <<>>
  ELSE (IF LimiterEnabled(rule) THEN <<RuleLimiter(rule, k)>> ELSE <<>>)
       \o (IF HandlerThrows(rule) THEN <<>> ELSE <<RuleHandler(rule, k)>>)

\* for (const proxy of proxies), from rule k on
RECURSIVE SetupProxies(_, _)
SetupProxies(items, k) ==
  IF k > Len(items) THEN [layers |-> <<>>, threw |-> FALSE]
  ELSE IF RuleThrows(items[k]) THEN [layers |-> <<>>, threw |-> TRUE]
  ELSE LET rest == SetupProxies(items, k + 1)
       IN  [layers |-> RuleLayers(items[k], k) \o rest.layers, threw |-> rest.threw]

\* the default export of proxy.ts: what it registers and whether it throws
ProxyPlugin(file) ==
  LET proxies == LoadProxyConfig(file)
  IN  IF proxies.isNull \/ Len(proxies.items) = 0
      THEN [layers |-> <<>>, threw |-> FALSE]
      ELSE SetupProxies(proxies.items, 1)

\* ------------------------------------------------------------------------
\* Dispatch of one request against the route table

\* the match of app.use(path, fn): the mount path without its trailing slash,
\* followed by the end of the request path or by "/"
MountMatches(mount, p) ==
  LET m == IF mount # <<>> /\ mount[Len(mount)] = "/"
           THEN SubSeq(mount, 1, Len(mount) - 1) ELSE mount
  IN  /\ StartsWith(p, m)
      /\ (Len(p) = Len(m) \/ p[Len(m) + 1] = "/")

\* the forwarding handler matches as the mount of the limiter does
PathFilterAsMount(rulePath, pathname) ==
  /\ StartsWith(pathname, rulePath)
  /\ (Len(pathname) = Len(rulePath) \/ pathname[Len(rulePath) + 1] = "/")

\* pathFilter: pathname.startsWith(proxy.path)
PathFilter(rulePath, pathname) == StartsWith(pathname, rulePath)

\* the request is refused as soon as the count reaches max
AllowedBelow(count, max) == count < max

\* express-rate-limit: the request is refused when the count, the request
\* included, exceeds max
Allowed(count, max) == count <= max

Outcome(kind, rule, owner) == [kind |-> kind, rule |-> rule, owner |-> owner]

\* the layers of table from i on, for the request of client c to path p;
\* h are the counters of the limiters, visited the limiters that counted it
RECURSIVE Dispatch(_, _, _, _, _, _)
Dispatch(table, i, c, p, h, visited) ==
  IF i > Len(table)
  THEN [hits |-> h, visited |-> visited, outcome |-> Outcome("404", 0, <<>>), layer |-> 0]
  ELSE LET l == table[i] IN
    CASE l.kind = "limiter" ->
           IF MountMatches(l.mount, p)
           THEN LET count == h[l.rule][c] + 1
                    h2 == [h EXCEPT ![l.rule][c] = count]
                    v2 == Append(visited, [rule |-> l.rule, count |-> count,
                                           allowed |-> Allowed(count, l.max)])
                IN  IF Allowed(count, l.max)
                    THEN Dispatch(table, i + 1, c, p, h2, v2)
                    ELSE [hits |-> h2, visited |-> v2,
                          outcome |-> Outcome("429", l.rule, <<>>), layer |-> i]
           ELSE Dispatch(table, i + 1, c, p, h, visited)
      [] l.kind = "route" ->
           IF l.path = p
           THEN [hits |-> h, visited |-> visited, outcome |-> Outcome("route", 0, l.owner),
                 layer |-> i]
           ELSE Dispatch(table, i + 1, c, p, h, visited)
      [] l.kind = "proxy" ->
           IF PathFilter(l.path, p)
           THEN [hits |-> h, visited |-> visited, outcome |-> Outcome("proxy", l.rule, <<>>),
                 layer |-> i]
           ELSE Dispatch(table, i + 1, c, p, h, visited)
      [] l.kind = "static" ->
           IF p \in StaticFiles
           THEN [hits |-> h, visited |-> visited, outcome |-> Outcome("static", 0, <<>>),
                 layer |-> i]
           ELSE Dispatch(table, i + 1, c, p, h, visited)
      [] l.kind = "spa" ->
           [hits |-> h, visited |-> visited, outcome |-> Outcome("spa", 0, <<>>), layer |-> i]
      [] OTHER -> Dispatch(table, i + 1, c, p, h, visited)

\* ------------------------------------------------------------------------
\* proxy.ts: the forwarding of a request by the handler of a rule.  A request
\* is [client, path, headers]; up is what becomes of the forwarding:
\* "answers", or a transport error before any response was started ("refused")
\* or after the upstream's response was started ("reset")

NoHeaders == [authorization |-> Undef, cookie |-> Undef]

HeaderSets == [authorization : {Undef, Str(<<"b">>)}, cookie : {Undef, Str(<<"k">>)}]

Upstreams == {"answers", "refused", "reset"}

\* a callback of the configuration is called on the outgoing request
CallOnProxyReq(custom, out) ==
  IF custom = Func("setAuthorization") THEN [out EXCEPT !.authorization = Str(<<"c">>)]
  ELSE out

\* the callback of the configuration is called before the headers are copied
OnProxyReqCustomFirst(rule, req, out) ==
  LET custom == rule.options.onProxyReq
      out0 == IF Truthy(custom) THEN CallOnProxyReq(custom, out) ELSE out
      out1 == IF Truthy(req.headers.cookie)
              THEN [out0 EXCEPT !.cookie = req.headers.cookie] ELSE out0
      out2 == IF Truthy(req.headers.authorization)
              THEN [out1 EXCEPT !.authorization = req.headers.authorization] ELSE out1
  IN  [out |-> out2,
       events |-> (IF Truthy(custom) THEN <<"custom:proxyReq">> ELSE <<>>)
                  \o <<"log:proxyReq">>
                  \o (IF Truthy(req.headers.cookie) THEN <<"set:cookie">> ELSE <<>>)
                  \o (IF Truthy(req.headers.authorization) THEN <<"set:authorization">>
                      ELSE <<>>)]

\* on.proxyReq: the log, the copy of the cookie and authorization headers of
\* the request, then the callback of the configuration
OnProxyReq(rule, req, out) ==
  LET out1 == IF Truthy(req.headers.cookie)
              THEN [out EXCEPT !.cookie = req.headers.cookie] ELSE out
      out2 == IF Truthy(req.headers.authorization)
              THEN [out1 EXCEPT !.authorization = req.headers.authorization] ELSE out1
      custom == rule.options.onProxyReq
      events == <<"log:proxyReq">>
                \o (IF Truthy(req.headers.cookie) THEN <<"set:cookie">> ELSE <<>>)
                \o (IF Truthy(req.headers.authorization) THEN <<"set:authorization">>
                    ELSE <<>>)
  IN  IF Truthy(custom)
      THEN [out |-> CallOnProxyReq(custom, out2), events |-> events \o <<"custom:proxyReq">>]
      ELSE [out |-> out2, events |-> events]

\* the callback of the configuration stands in for the log
OnProxyResCustomOnly(rule) ==
  IF Truthy(rule.options.onProxyRes) THEN <<"custom:proxyRes">> ELSE <<"log:proxyRes">>

\* on.proxyRes: the log, then the callback of the configuration
OnProxyRes(rule) ==
  <<"log:proxyRes">>
  \o (IF Truthy(rule.options.onProxyRes) THEN <<"custom:proxyRes">> ELSE <<>>)

\* res.status(502).json({ error, message, details, code, path: req.url })
ProxyError(rule, url) ==
  [NoBody EXCEPT !.kind = "json", !.error = "Proxy Error",
                 !.message = "Failed to connect to <target>", !.target = rule.target,
                 !.details = TRUE, !.path = url]

\* what the callback onError of the configuration answers
CustomError == [NoBody EXCEPT !.kind = "custom"]

\* on.error: the log; then the callback of the configuration, or else the
\* answer 502 unless the response was started.  status 0: nothing is sent
OnError(rule, url, headersSent) ==
  LET custom == rule.options.onError IN
  IF Truthy(custom)
  THEN [events |-> <<"log:error", "custom:error">>,
        status |-> IF custom = Func("respond") /\ ~headersSent THEN 500 ELSE 0,
        body |-> IF custom = Func("respond") /\ ~headersSent THEN CustomError ELSE NoBody]
  ELSE IF ~headersSent
  THEN [events |-> <<"log:error", "send:502">>, status |-> 502, body |-> ProxyError(rule, url)]
  ELSE [events |-> <<"log:error">>, status |-> 0, body |-> NoBody]

\* http-proxy-middleware: options.pathRewrite { "^<path>": "" } is applied to
\* req.url before the request is forwarded
PathRewrite(rule, url) ==
  IF rule.options.pathRewrite /\ StartsWith(url, rule.path.s)
  THEN SubSeq(url, Len(rule.path.s) + 1, Len(url))
  ELSE url

\* http-proxy: the outgoing headers are those of the request, then those of
\* options.headers
Outgoing(rule, req) ==
  IF Truthy(rule.options.authorization)
  THEN [req.headers EXCEPT !.authorization = rule.options.authorization]
  ELSE req.headers

UpstreamBody == [NoBody EXCEPT !.kind = "upstream"]

\* the handler of rule forwards req to the target of its options: target is
\* what the request is sent to, url the path it is sent with
Forward(rule, req, up) ==
  LET url == PathRewrite(rule, req.path)
      q == OnProxyReq(rule, req, Outgoing(rule, req))
      e == OnError(rule, url, up = "reset")
  IN  CASE up = "answers" ->
             [status |-> 200, body |-> UpstreamBody, events |-> q.events \o OnProxyRes(rule),
              outbound |-> q.out, url |-> url, target |-> EffectiveTarget(rule)]
        [] up = "refused" ->
             [status |-> e.status, body |-> e.body, events |-> q.events \o e.events,
              outbound |-> q.out, url |-> url, target |-> EffectiveTarget(rule)]
        [] up = "reset" ->
             [status |-> 200, body |-> UpstreamBody,
              events |-> q.events \o OnProxyRes(rule) \o e.events,
              outbound |-> q.out, url |-> url, target |-> EffectiveTarget(rule)]

\* ------------------------------------------------------------------------
\* The answers of the other layers

Sent(status, body) ==
  [status |-> status, body |-> body, events |-> <<>>, outbound |-> NoHeaders, url |-> <<>>,
   target |-> Undef]

\* res.json of a route
RouteBody == [NoBody EXCEPT !.kind = "json", !.message = "route"]

\* server.ts: res.json({ status: 'OK', timestamp })
HealthBody == [NoBody EXCEPT !.kind = "json", !.message = "OK"]

\* express.static, res.sendFile: the file of the static directory at path
FileBody(path) == [NoBody EXCEPT !.kind = "file", !.path = path]

IndexHtml == <<"/", "i">>

\* Express answers 404 with a page of its own when no layer claims the request
\* or when sendFile finds no file
ExpressNotFound == [NoBody EXCEPT !.kind = "html", !.error = "Not Found"]

\* res.status(404).json({ error: 'Not Found', message, path: req.path })
NotFound(path) ==
  [NoBody EXCEPT !.kind = "json", !.error = "Not Found",
                 !.message = "The requested resource was not found.", !.path = path]

\* the SPA fallback; guarded: the server tests fs.existsSync(indexPath)
\* before res.sendFile
Fallback(guarded, indexExists, req) ==
  IF indexExists THEN Sent(200, FileBody(IndexHtml))
  ELSE IF guarded THEN Sent(404, NotFound(req.path))
  ELSE Sent(404, ExpressNotFound)

\* what the layer l that claimed the request sends
Answer(l, outcome, req, up, guarded, indexExists) ==
  CASE outcome.kind = "429" -> Sent(429, l.message)
    [] outcome.kind = "route" ->
         Sent(200, IF outcome.owner = Server THEN HealthBody ELSE RouteBody)
    [] outcome.kind = "proxy" -> Forward(l.proxy, req, up)
    [] outcome.kind = "static" -> Sent(200, FileBody(req.path))
    [] outcome.kind = "spa" -> Fallback(guarded, indexExists, req)
    [] OTHER -> Sent(404, ExpressNotFound)

\* ------------------------------------------------------------------------
\* api/loader.ts: the files of the api directory

HelloTs == <<"hello", ".ts">>

HelloJs == <<"hello", ".js">>

ProxyTs == <<"proxy", ".ts">>

ZetaTs == <<"zeta", ".ts">>

HealthTs == <<"health", ".ts">>

LoaderTs == <<"loader", ".ts">>

LoaderJs == <<"loader", ".js">>

TypesTs == <<"types", ".ts">>

TypesJs == <<"types", ".js">>

TypesDTs == <<"types", ".d", ".ts">>

FileUniverse == {HelloTs, HelloJs, ProxyTs, ZetaTs, LoaderTs, TypesDTs}

\* the directory is never taken for a compiled one
NeverProduction(listing) == FALSE

\* files.some(f => f.endsWith('.js'))
IsProduction(listing) == \E i \in 1..Len(listing) : EndsWith(listing[i], <<".js">>)

\* the file passes every 'continue' at the head of the loop
IsCandidate(file, isProduction) ==
  /\ EndsWith(file, <<".js">>) \/ EndsWith(file, <<".ts">>)
  /\ ~EndsWith(file, <<".d", ".ts">>)
  /\ ~(isProduction /\ EndsWith(file, <<".ts">>))
  /\ ~(~isProduction /\ EndsWith(file, <<".js">>))
  /\ file \notin {LoaderTs, LoaderJs, TypesTs, TypesJs, TypesDTs}

\* the loop stops at its first candidate: the position of the first
\* candidate of listing from i on, Len(listing) + 1 when there is none
RECURSIVE NextCandidate(_, _)
NextCandidate(listing, i) ==
  IF i > Len(listing) THEN Len(listing) + 1
  ELSE IF IsCandidate(listing[i], IsProduction(listing)) THEN i
  ELSE NextCandidate(listing, i + 1)

\* the catch of a turn abandons the whole loop
AfterFailureAbort(listing, i) == Len(listing) + 1

\* the catch of a turn (or its 'continue') leads to the next turn
AfterFailure(listing, i) == NextCandidate(listing, i + 1)

\* the callable's promise is not awaited
AfterInvokeNoAwait(returnsPromise) == "next"

\* await plugin(app, config): the loop waits when the callable returned a promise
AfterInvoke(returnsPromise) == IF returnsPromise THEN "await" ELSE "next"

\* file.replace(/\.(js|ts)$/, '')
PluginName(file) ==
  IF EndsWith(file, <<".js">>) \/ EndsWith(file, <<".ts">>)
  THEN SubSeq(file, 1, Len(file) - 1) ELSE file

PluginMetadata(file) == [name |-> PluginName(file), path |-> file]

\* the plugin of api/proxy.ts (proxy.js once compiled)
IsProxyPlugin(file) == PluginName(file) = ProxyName

\* the route a plugin registers before its first await (hello.ts: /bff/hello;
\* health.ts: the path of the health route)
FirstPath(file) ==
  CASE PluginName(file) = <<"hello">> -> PathP
    [] PluginName(file) = <<"health">> -> HealthPath
    [] OTHER -> PathZ

\* the route an asynchronous plugin registers after its await
SecondPath(file) == FirstPath(file) \o <<"/", "x">>

\* ------------------------------------------------------------------------
\* The state

VARIABLES
  dir,         \* the api directory: [readable, listing]
  configFile,  \* the proxy config file
  budget,      \* the number of requests the clients send
  pc,          \* loadApiPlugins: "start", "import", "call", "await",
               \* "resolved" (its promise is resolved; "rejected" if it were
               \* rejected), "done" (the then callback ran)
  files,       \* readdirSync(apiDir)
  idx,         \* the position of the loop in files
  attempted,   \* the files imported so far, in order
  invoked,     \* the files whose callable was called so far, in order
  plugins,     \* plugins: the metadata of the plugins loaded
  running,     \* the callables whose promise is still pending
  settled,     \* what became of each file imported: [file, result]
  proxyRan,    \* the proxy plugin: "no", "returned", "threw"
  routes,      \* the route table
  hits,        \* the counter of each limiter (0: global, k: rule k) and client
  nreq,        \* the requests sent so far
  last,        \* the last request and its answer; at and ran are pc and
               \* proxyRan when it arrived
  indexHtml,   \* whether the static directory holds index.html
  guarded,     \* whether the SPA fallback tests that index.html exists
  detail,      \* whether the requests carry credentials and the upstream may fail
  fileContent, \* the text of a config file, where it is followed by the character
  env,         \* process.env
  substituted, \* substituteEnvVariables(fileContent): [done, result]
  inflight,    \* the requests in flight, where their steps are interleaved
  allowed,     \* the requests each limiter has allowed, by client
  now,         \* Date.now(), in ms since the server started, where time passes
  resetTime,   \* the end of the window of each limiter and client
  denied       \* the limiters that have refused a client: <<rule, client>>

vars ==
  <<dir, configFile, budget, pc, files, idx, attempted, invoked, plugins, running,
    settled, proxyRan, routes, hits, nreq, last, indexHtml, guarded, detail,
    fileContent, env, substituted, inflight, allowed, now, resetTime, denied>>

inputs == <<dir, configFile, budget, indexHtml, guarded, detail, fileContent, env>>

\* what the startup and the requests of Spec leave alone
asideVars == <<substituted, inflight, allowed, now, resetTime, denied>>

timeVars == <<now, resetTime, denied>>

loaderVars ==
  <<pc, files, idx, attempted, invoked, plugins, running, settled, proxyRan>>

requestVars == <<hits, nreq, last>>

\* ------------------------------------------------------------------------
\* The inputs

\* the sequences over S of length at most n
SeqsUpTo(S, n) == UNION {[1..k -> S] : k \in 0..n}

\* the listings: at most MaxFiles distinct files, in any order
Listings ==
  {l \in SeqsUpTo(FileUniverse, MaxFiles) :
     \A i, j \in 1..Len(l) : i # j => l[i] # l[j]}

ConfigFiles ==
  {AbsentFile, MalformedFile, NotArrayFile}
  \cup {Document(rules) : rules \in SeqsUpTo(RuleSet, MaxRules)}

NoHits == [k \in 0..MaxRules |-> [c \in Clients |-> 0]]

\* all but one request of the global limiter's window are spent by client c1
WarmHits == [NoHits EXCEPT ![0]["c1"] = GlobalMax - 1]

NoRequest == [client |-> "none", path |-> <<>>, at |-> "none", ran |-> "no", visited |-> <<>>,
              outcome |-> Outcome("none", 0, <<>>), headers |-> NoHeaders, up |-> "none",
              answer |-> Sent(0, NoBody)]

\* the requests carry no credentials and the upstream answers; index.html
\* is there
Plain ==
  /\ indexHtml = TRUE
  /\ guarded = FALSE
  /\ detail = FALSE

\* the requests sent while the directory or the config file varies
FewRequests == 1

\* the concatenation of the pieces of a sequence of pieces
RECURSIVE Flatten(_)
Flatten(pieces) == IF pieces = <<>> THEN <<>> ELSE Head(pieces) \o Flatten(Tail(pieces))

Chunks ==
  {<<"$">>, <<"{">>, <<"}">>, <<"X">>, <<"$", "{">>,
   <<"$", "{", "X", "}">>, <<"$", "{", "Y", "}">>}

\* the texts: at most MaxChunks pieces
Texts == {Flatten(pieces) : pieces \in SeqsUpTo(Chunks, MaxChunks)}

EnvNames == {<<"X">>, <<"Y">>}

\* a variable is not defined, is empty, or holds a text, which may itself
\* read as a placeholder
EnvValues == {Undef, Str(<<>>), Str(<<"v">>), Str(<<"$", "{", "Y", "}">>)}

Envs == [EnvNames -> EnvValues]

NoEnv == [name \in EnvNames |-> Undef]

NotSubstituted == [done |-> FALSE, result |-> [text |-> <<>>, warned |-> <<>>]]

\* a request in flight: where it stands ("free": not sent yet; "arrived": at
\* the limiter in position at, before the increment; "counted": after the
\* increment, before the decision; "done"), the count the limiter held when
\* the request reached it and the count its increment returned
NotSent ==
  [stage |-> "free", client |-> "none", path |-> <<>>, at |-> 0, seen |-> 0,
   totalHits |-> 0, outcome |-> Outcome("none", 0, <<>>)]

NoneInFlight == [r \in 1..MaxInflight |-> NotSent]

\* the store of no limiter holds a client: the window of every client is over
NoWindows == [k \in 0..MaxRules |-> [c \in Clients |-> 0]]

\* the api directory varies; one rule is configured
InitLoader ==
  /\ dir \in {[readable |-> TRUE, listing |-> l] : l \in Listings}
             \cup {[readable |-> FALSE, listing |-> <<>>]}
  /\ configFile = Document(<<RuleA>>)
  /\ budget = FewRequests
  /\ hits = NoHits
  /\ Plain

\* the config file varies; proxy.ts is the only plugin
InitRules ==
  /\ dir = [readable |-> TRUE, listing |-> <<ProxyTs>>]
  /\ configFile \in ConfigFiles
  /\ budget = FewRequests
  /\ hits = NoHits
  /\ Plain

\* the overlapping rules in both orders, with more requests; client c1 may
\* have nearly used up the window of the global limiter
InitDispatch ==
  /\ dir = [readable |-> TRUE, listing |-> <<ProxyTs>>]
  /\ configFile \in {Document(<<RuleA, RuleAV>>), Document(<<RuleAV, RuleA>>)}
  /\ budget = MaxRequests
  /\ hits \in {NoHits, WarmHits}
  /\ Plain

\* the static-file handler is registered before the plugins are loaded
ServerLayersStaticFirst == <<GlobalLimiter, Cors, JsonBody, HealthRoute, StaticHandler>>

\* server.ts: the layers registered before loadApiPlugins is called
ServerLayers == <<GlobalLimiter, Cors, JsonBody, HealthRoute>>

\* server.ts up to the call of loadApiPlugins: the global limiter, cors, the
\* body parser and the health route are registered
Started ==
  /\ pc = "start"
  /\ files = <<>>
  /\ idx = 1
  /\ attempted = <<>>
  /\ invoked = <<>>
  /\ plugins = <<>>
  /\ running = {}
  /\ settled = <<>>
  /\ proxyRan = "no"
  /\ routes = ServerLayers
  /\ nreq = 0
  /\ last = NoRequest
  /\ substituted = NotSubstituted
  /\ inflight = NoneInFlight
  /\ allowed = hits
  /\ now = 0
  /\ resetTime = NoWindows
  /\ denied = {}

\* the requests carry credentials or not, the upstream answers or fails,
\* index.html is there or not, with either version of the SPA fallback; the
\* rules forward /a, with callbacks or not, or there is no rule; a rule may
\* set the max of its limiter to 0 or name another target in its options
InitTraffic ==
  /\ dir = [readable |-> TRUE, listing |-> <<ProxyTs>>]
  /\ configFile \in
       {AbsentFile, Document(<<RuleA>>), Document(<<RuleRewrite>>), Document(<<RuleZeroMax>>),
        Document(<<RuleOtherTarget>>)}
       \cup {Document(<<RuleCallbacks(a, b)>>) :
               a \in {"nothing", "setAuthorization"}, b \in {"nothing", "respond"}}
  /\ budget = FewRequests
  /\ hits = NoHits
  /\ indexHtml \in BOOLEAN
  /\ guarded \in BOOLEAN
  /\ detail = TRUE

\* a plugin registers a route on the path of the health route, before or
\* after proxy.ts, and a rule forwards every path or the path of the health
\* route
InitHealth ==
  /\ dir \in {[readable |-> TRUE, listing |-> l] :
                l \in {<<HealthTs, ProxyTs>>, <<ProxyTs, HealthTs>>}}
  /\ configFile \in {Document(<<RuleRoot>>), Document(<<RuleHealth>>)}
  /\ budget = FewRequests
  /\ hits = NoHits
  /\ Plain

Init ==
  /\ InitLoader \/ InitRules \/ InitDispatch \/ InitTraffic \/ InitHealth
  /\ fileContent = <<>>
  /\ env = NoEnv
  /\ Started

\* ------------------------------------------------------------------------
\* loadApiPlugins

\* the loop goes on at position i, or the function returns
Goto(i) ==
  /\ idx' = i
  /\ pc' = IF i > Len(files') THEN "resolved" ELSE "import"

\* the outer catch throws the error again: the promise of loadApiPlugins
\* is rejected
OuterCatchRethrows == "rejected"

\* the outer catch logs the error and the function returns
OuterCatch == "resolved"

\* readdirSync and the turns of the loop up to the first import; the outer
\* catch when the directory cannot be read
ReadDir ==
  /\ pc = "start"
  /\ files' = IF dir.readable THEN dir.listing ELSE <<>>
  /\ IF dir.readable
     THEN Goto(NextCandidate(files', 1))
     ELSE idx' = idx /\ pc' = OuterCatch
  /\ UNCHANGED <<inputs, asideVars, attempted, invoked, plugins, running, settled, proxyRan,
                 routes, requestVars>>

ImportOutcomes(file) ==
  IF IsProxyPlugin(file) THEN {"function"} ELSE {"throws", "notFunction", "function"}

\* await import(pluginPath), and the test of the default export
Import(outcome) ==
  /\ pc = "import"
  /\ outcome \in ImportOutcomes(files[idx])
  /\ attempted' = Append(attempted, files[idx])
  /\ files' = files
  /\ IF outcome = "function"
     THEN pc' = "call" /\ idx' = idx /\ settled' = settled
     ELSE /\ Goto(AfterFailure(files, idx))
          /\ settled' = Append(settled, [file |-> files[idx], result |-> outcome])
  /\ UNCHANGED <<inputs, asideVars, invoked, plugins, running, proxyRan, routes, requestVars>>

InvokeOutcomes == {"return", "throw", "promise"}

\* plugin(app, config) up to its return, its throw or its first await
Invoke(outcome) ==
  /\ pc = "call"
  /\ outcome \in InvokeOutcomes
  /\ invoked' = Append(invoked, files[idx])
  /\ files' = files
  /\ IF IsProxyPlugin(files[idx])
     THEN LET r == ProxyPlugin(configFile) IN
          /\ outcome = IF r.threw THEN "throw" ELSE "return"
          /\ routes' = routes \o r.layers
          /\ proxyRan' = IF r.threw THEN "threw" ELSE "returned"
     ELSE /\ routes' = Append(routes, Route(FirstPath(files[idx]), PluginName(files[idx])))
          /\ proxyRan' = proxyRan
  /\ CASE outcome = "throw" ->
            /\ Goto(AfterFailure(files, idx))
            /\ settled' = Append(settled, [file |-> files[idx], result |-> "threw"])
            /\ UNCHANGED <<plugins, running>>
       [] outcome = "return" ->
            /\ Goto(NextCandidate(files, idx + 1))
            /\ plugins' = Append(plugins, PluginMetadata(files[idx]))
            /\ settled' = Append(settled, [file |-> files[idx], result |-> "returned"])
            /\ UNCHANGED running
       [] outcome = "promise" ->
            /\ running' = running \cup {files[idx]}
            /\ settled' = settled
            /\ IF AfterInvoke(TRUE) = "await"
               THEN pc' = "await" /\ idx' = idx /\ plugins' = plugins
               ELSE /\ Goto(NextCandidate(files, idx + 1))
                    /\ plugins' = Append(plugins, PluginMetadata(files[idx]))
  /\ UNCHANGED <<inputs, asideVars, attempted, requestVars>>

SettleOutcomes == {"resolve", "reject"}

\* the rest of an asynchronous callable: it registers a second route and its
\* promise resolves, or its promise rejects
Settle(file, outcome) ==
  /\ file \in running
  /\ outcome \in SettleOutcomes
  /\ running' = running \ {file}
  /\ settled' = Append(settled, [file |-> file,
                                  result |-> IF outcome = "resolve" THEN "resolved"
                                             ELSE "rejected"])
  /\ routes' = IF outcome = "resolve"
               THEN Append(routes, Route(SecondPath(file), PluginName(file)))
               ELSE routes
  /\ files' = files
  /\ IF pc = "await" /\ files[idx] = file
     THEN IF outcome = "resolve"
          THEN /\ Goto(NextCandidate(files, idx + 1))
               /\ plugins' = Append(plugins, PluginMetadata(file))
          ELSE /\ Goto(AfterFailure(files, idx))
               /\ plugins' = plugins
     ELSE UNCHANGED <<pc, idx, plugins>>
  /\ UNCHANGED <<inputs, asideVars, attempted, invoked, proxyRan, requestVars>>

\* the layers of the then callback, the fallback first
ThenLayersSwapped == <<SpaFallback, StaticHandler>>

\* server.ts: app.use(express.static(staticPath)), then the SPA fallback
ThenLayers == <<StaticHandler, SpaFallback>>

\* server.ts: the then callback of loadApiPlugins
OnLoaded ==
  /\ pc = "resolved"
  /\ pc' = "done"
  /\ routes' = routes \o ThenLayers
  /\ UNCHANGED <<inputs, asideVars, files, idx, attempted, invoked, plugins, running, settled,
                 proxyRan, requestVars>>

\* ------------------------------------------------------------------------
\* A request: app.listen is called while the plugins are still loading

Request(c, p) ==
  /\ nreq < budget
  /\ \E headers \in HeaderSets, up \in Upstreams :
       LET req == [client |-> c, path |-> p, headers |-> headers]
           r == Dispatch(routes, 1, c, p, hits, <<>>)
           l == IF r.layer = 0 THEN Cors ELSE routes[r.layer]
           forwarded == r.outcome.kind = "proxy"
       IN  /\ (~detail \/ ~forwarded) => (headers = NoHeaders /\ up = "answers")
           /\ hits' = r.hits
           /\ last' = [client |-> c, path |-> p, at |-> pc, ran |-> proxyRan,
                        visited |-> r.visited, outcome |-> r.outcome,
                        headers |-> headers, up |-> IF forwarded THEN up ELSE "none",
                        answer |-> Answer(l, r.outcome, req, up, guarded, indexHtml)]
  /\ nreq' = nreq + 1
  /\ UNCHANGED <<inputs, asideVars, loaderVars, routes>>

Next ==
  \/ ReadDir
  \/ \E o \in {"throws", "notFunction", "function"} : Import(o)
  \/ \E o \in InvokeOutcomes : Invoke(o)
  \/ \E f \in running, o \in SettleOutcomes : Settle(f, o)
  \/ OnLoaded
  \/ \E c \in Clients, p \in RequestPaths : Request(c, p)

Spec == Init /\ [][Next]_vars

\* ------------------------------------------------------------------------
\* loadApiPlugins alone, over the directories that hold the sources and the
\* compiled files of the plugins, of the loader and of the types

VariantUniverse ==
  {HelloTs, HelloJs, ZetaTs, LoaderTs, LoaderJs, TypesTs, TypesJs, TypesDTs}

VariantListings ==
  {l \in SeqsUpTo(VariantUniverse, MaxFiles) :
     \A i, j \in 1..Len(l) : i # j => l[i] # l[j]}

InitVariants ==
  /\ dir \in {[readable |-> TRUE, listing |-> l] : l \in VariantListings}
             \cup {[readable |-> FALSE, listing |-> <<>>]}
  /\ configFile = AbsentFile
  /\ budget = 0
  /\ hits = NoHits
  /\ Plain
  /\ fileContent = <<>>
  /\ env = NoEnv
  /\ Started

NextLoader ==
  \/ ReadDir
  \/ \E o \in {"throws", "notFunction", "function"} : Import(o)
  \/ \E o \in InvokeOutcomes : Invoke(o)
  \/ \E f \in running, o \in SettleOutcomes : Settle(f, o)
  \/ OnLoaded

SpecLoader == InitVariants /\ [][NextLoader]_vars

\* ------------------------------------------------------------------------
\* The startup to its end: every step of loadApiPlugins that can be taken is
\* taken in the end (readdirSync returns or throws, an import and the promise
\* of a callable settle, the event loop runs the then callback)

\* the directory varies; the proxy plugin returns or throws
InitStartup ==
  /\ dir \in {[readable |-> TRUE, listing |-> l] : l \in Listings}
             \cup {[readable |-> FALSE, listing |-> <<>>]}
  /\ configFile \in {Document(<<RuleA>>), Document(<<RuleNumTarget>>)}
  /\ budget = 0
  /\ hits = NoHits
  /\ Plain
  /\ fileContent = <<>>
  /\ env = NoEnv
  /\ Started

SpecStartup == InitStartup /\ [][NextLoader]_vars /\ WF_vars(NextLoader)

\* ------------------------------------------------------------------------
\* substituteEnvVariables alone, over the texts and the environments

InitSubst ==
  /\ fileContent \in Texts
  /\ env \in Envs
  /\ dir = [readable |-> TRUE, listing |-> <<ProxyTs>>]
  /\ configFile = MalformedFile
  /\ budget = 0
  /\ hits = NoHits
  /\ Plain
  /\ Started

\* loadProxyConfig: const substitutedContent = substituteEnvVariables(fileContent)
Substitute ==
  /\ ~substituted.done
  /\ substituted' = [done |-> TRUE, result |-> SubstituteEnvVariables(fileContent, env)]
  /\ UNCHANGED <<inputs, loaderVars, routes, requestVars, inflight, allowed, timeVars>>

NextSubst == Substitute

SpecSubst == InitSubst /\ [][NextSubst]_vars

\* ------------------------------------------------------------------------
\* The requests in flight once the startup is over.  The middleware of
\* express-rate-limit is asynchronous: a request waits before the increment
\* of the store and again before the decision, and the steps of the other
\* requests come in between; the layers between two limiters run in one go.

\* the layers of table from i on, up to the first limiter that counts the
\* path p or to the layer that answers
RECURSIVE Advance(_, _, _)
Advance(table, i, p) ==
  IF i > Len(table) THEN [at |-> 0, outcome |-> Outcome("404", 0, <<>>)]
  ELSE LET l == table[i] IN
    CASE l.kind = "limiter" /\ MountMatches(l.mount, p) ->
           [at |-> i, outcome |-> Outcome("none", 0, <<>>)]
      [] l.kind = "route" /\ l.path = p -> [at |-> 0, outcome |-> Outcome("route", 0, l.owner)]
      [] l.kind = "proxy" /\ PathFilter(l.path, p) ->
           [at |-> 0, outcome |-> Outcome("proxy", l.rule, <<>>)]
      [] l.kind = "static" /\ p \in StaticFiles ->
           [at |-> 0, outcome |-> Outcome("static", 0, <<>>)]
      [] l.kind = "spa" -> [at |-> 0, outcome |-> Outcome("spa", 0, <<>>)]
      [] OTHER -> Advance(table, i + 1, p)

\* the request q goes on from the layer i: it stops at a limiter or is answered
Proceed(q, i) ==
  LET a == Advance(routes, i, q.path) IN
  IF a.at = 0
  THEN [q EXCEPT !.stage = "done", !.at = 0, !.outcome = a.outcome]
  ELSE [q EXCEPT !.stage = "arrived", !.at = a.at,
                 !.seen = hits[routes[a.at].rule][q.client]]

\* the startup is over: proxy.ts was the only plugin, /a/v is forwarded with at
\* most one request per window and client, and client c1 may have nearly used
\* up the window of the global limiter
InitInflight ==
  /\ dir = [readable |-> TRUE, listing |-> <<ProxyTs>>]
  /\ configFile = Document(<<RuleAV>>)
  /\ budget = 0
  /\ Plain
  /\ fileContent = <<>>
  /\ env = NoEnv
  /\ pc = "done"
  /\ files = <<ProxyTs>>
  /\ idx = 2
  /\ attempted = <<ProxyTs>>
  /\ invoked = <<ProxyTs>>
  /\ plugins = <<PluginMetadata(ProxyTs)>>
  /\ running = {}
  /\ settled = <<[file |-> ProxyTs, result |-> "returned"]>>
  /\ proxyRan = "returned"
  /\ routes = ServerLayers \o ProxyPlugin(configFile).layers \o ThenLayers
  /\ hits \in {NoHits, WarmHits}
  /\ nreq = 0
  /\ last = NoRequest
  /\ substituted = NotSubstituted
  /\ inflight = NoneInFlight
  /\ allowed = hits
  /\ now = 0
  /\ resetTime = NoWindows
  /\ denied = {}

\* a request arrives and runs up to the first limiter
Arrive(r, c, p) ==
  /\ inflight[r].stage = "free"
  /\ inflight' = [inflight EXCEPT
                    ![r] = Proceed([NotSent EXCEPT !.client = c, !.path = p], 1)]
  /\ UNCHANGED <<inputs, loaderVars, routes, requestVars, substituted, allowed, timeVars>>

\* the store writes the count it read when the request arrived, plus one
StoreIncrementStale(current, seen) == seen + 1

\* MemoryStore.increment: the count of the client, plus one
StoreIncrement(current, seen) == current + 1

\* await store.increment(key)
Increment(r) ==
  /\ inflight[r].stage = "arrived"
  /\ LET k == routes[inflight[r].at].rule
         c == inflight[r].client
         totalHits == StoreIncrement(hits[k][c], inflight[r].seen)
     IN  /\ hits' = [hits EXCEPT ![k][c] = totalHits]
         /\ inflight' = [inflight EXCEPT ![r].stage = "counted", ![r].totalHits = totalHits]
  /\ UNCHANGED <<inputs, loaderVars, routes, nreq, last, substituted, allowed, timeVars>>

\* the count the decision reads: the one the increment returned, or the one
\* the store holds by now (the store may return the entry of the client itself)
Reads == {"returned", "held"}

\* if (totalHits > limit) the limiter answers 429, else next()
Decide(r, read) ==
  /\ inflight[r].stage = "counted"
  /\ read \in Reads
  /\ LET l == routes[inflight[r].at]
         c == inflight[r].client
         totalHits == IF read = "held" THEN hits[l.rule][c] ELSE inflight[r].totalHits
     IN  IF Allowed(totalHits, l.max)
         THEN /\ allowed' = [allowed EXCEPT ![l.rule][c] = @ + 1]
              /\ inflight' = [inflight EXCEPT
                                ![r] = Proceed(inflight[r], inflight[r].at + 1)]
         ELSE /\ allowed' = allowed
              /\ inflight' = [inflight EXCEPT ![r].stage = "done",
                                                ![r].outcome = Outcome("429", l.rule, <<>>)]
  /\ UNCHANGED <<inputs, loaderVars, routes, requestVars, substituted, timeVars>>

NextInflight ==
  \/ \E r \in 1..MaxInflight, c \in Clients, p \in RequestPaths : Arrive(r, c, p)
  \/ \E r \in 1..MaxInflight : Increment(r)
  \/ \E r \in 1..MaxInflight, read \in Reads : Decide(r, read)

SpecInflight == InitInflight /\ [][NextInflight]_vars

\* ------------------------------------------------------------------------
\* The windows of the limiters, once the startup is over.  The memory store of
\* express-rate-limit keeps for each client a count and the time at which its
\* window ends (resetTime); an increment that comes when that time has passed
\* starts a new window of windowMs and counts from zero.

\* the time between a request and the one before it, in ms: none, less than
\* the window of the rule /a/v, that window, the window of the global limiter
Lapses == {0, 400, 1000, GlobalWindowMs}

\* the window is over only after the millisecond at which it ends
WindowOverStrictly(end, t) == end < t

\* MemoryStore.increment: client.resetTime.getTime() <= now
WindowOver(end, t) == end <= t

\* the counts from which the increments of client c start at time t
CountsAt(h, ends, t, c) ==
  [k \in DOMAIN h |->
     IF WindowOver(ends[k][c], t) THEN [h[k] EXCEPT ![c] = 0] ELSE h[k]]

\* windowMs of the limiter of rule k in table
WindowMsOf(table, k) ==
  LET i == CHOOSE j \in 1..Len(table) : table[j].kind = "limiter" /\ table[j].rule = k
  IN  table[i].windowMs

\* the startup is over: proxy.ts was the only plugin and /a/v is forwarded
\* with at most one request per second and client; no client is known to a
\* limiter, or client c1 has nearly used up a window of the global limiter that
\* ends in half a second or in fifteen minutes
InitWindow ==
  /\ dir = [readable |-> TRUE, listing |-> <<ProxyTs>>]
  /\ configFile = Document(<<RuleAV>>)
  /\ budget = MaxRequests
  /\ Plain
  /\ fileContent = <<>>
  /\ env = NoEnv
  /\ pc = "done"
  /\ files = <<ProxyTs>>
  /\ idx = 2
  /\ attempted = <<ProxyTs>>
  /\ invoked = <<ProxyTs>>
  /\ plugins = <<PluginMetadata(ProxyTs)>>
  /\ running = {}
  /\ settled = <<[file |-> ProxyTs, result |-> "returned"]>>
  /\ proxyRan = "returned"
  /\ routes = ServerLayers \o ProxyPlugin(configFile).layers \o ThenLayers
  /\ \/ hits = NoHits /\ resetTime = NoWindows
     \/ /\ hits = WarmHits
        /\ resetTime \in {[NoWindows EXCEPT ![0]["c1"] = t] : t \in {500, GlobalWindowMs}}
  /\ nreq = 0
  /\ last = NoRequest
  /\ substituted = NotSubstituted
  /\ inflight = NoneInFlight
  /\ allowed = hits
  /\ now = 0
  /\ denied = {}

\* a request of client c to path p, lapse ms after the request before it
WindowRequest(c, p, lapse) ==
  /\ nreq < budget
  /\ lapse \in Lapses
  /\ now' = now + lapse
  /\ LET req == [client |-> c, path |-> p, headers |-> NoHeaders]
         r == Dispatch(routes, 1, c, p, CountsAt(hits, resetTime, now', c), <<>>)
         l == IF r.layer = 0 THEN Cors ELSE routes[r.layer]
         counted == {r.visited[i].rule : i \in 1..Len(r.visited)}
     IN  /\ hits' = [k \in DOMAIN hits |-> IF k \in counted THEN r.hits[k] ELSE hits[k]]
         /\ resetTime' =
              [k \in DOMAIN resetTime |->
                 IF k \in counted /\ WindowOver(resetTime[k][c], now')
                 THEN [resetTime[k] EXCEPT ![c] = now' + WindowMsOf(routes, k)]
                 ELSE resetTime[k]]
         /\ denied' = IF r.outcome.kind = "429"
                      THEN denied \cup {<<r.outcome.rule, c>>} ELSE denied
         /\ last' = [client |-> c, path |-> p, at |-> pc, ran |-> proxyRan,
                      visited |-> r.visited, outcome |-> r.outcome,
                      headers |-> NoHeaders,
                      up |-> IF r.outcome.kind = "proxy" THEN "answers" ELSE "none",
                      answer |-> Answer(l, r.outcome, req, "answers", guarded, indexHtml)]
  /\ nreq' = nreq + 1
  /\ UNCHANGED <<inputs, loaderVars, routes, substituted, inflight, allowed>>

NextWindow == \E c \in Clients, p \in RequestPaths, lapse \in Lapses : WindowRequest(c, p, lapse)

SpecWindow == InitWindow /\ [][NextWindow]_vars

\* ------------------------------------------------------------------------
\* Vocabulary of the properties

Positions(kind) == {i \in 1..Len(routes) : routes[i].kind = kind}

\* the routes the plugin files registered (not the health route of the server)
PluginRoutes == {i \in Positions("route") : routes[i].owner # Server}

\* the forwarding handlers of the proxy rules
ProxyHandlers == Positions("proxy")

\* the limiters of the proxy rules
RuleLimiters == {i \in Positions("limiter") : routes[i].rule # 0}

\* the rules whose forwarding handler is registered
RegisteredRules == {routes[i].rule : i \in ProxyHandlers}

\* the position of the plugin called name in the order of invocation, 0 if none
InvokedAt(name) ==
  IF \E i \in 1..Len(invoked) : PluginName(invoked[i]) = name
  THEN CHOOSE i \in 1..Len(invoked) : PluginName(invoked[i]) = name
  ELSE 0

\* the document loaded: the file exists, parses and holds an array of rules
Loaded == configFile.exists /\ configFile.parses /\ configFile.isArray

\* the rules of the document
Rules == configFile.items

\* the files of the listing the loop does not skip, in the order of the listing
Candidates == SelectSeq(files, LAMBDA f : IsCandidate(f, IsProduction(files)))

\* the limiters that counted the last request
Charged == {last.visited[i].rule : i \in 1..Len(last.visited)}

\* ------------------------------------------------------------------------
\* the order of two tokens of a filename, and of two filenames
TokenRank ==
  [t \in {".d", ".js", ".ts", "health", "hello", "loader", "proxy", "types", "zeta"} |->
     CASE t = ".d" -> 1 [] t = ".js" -> 2 [] t = ".ts" -> 3 [] t = "health" -> 4
       [] t = "hello" -> 5 [] t = "loader" -> 6 [] t = "proxy" -> 7 [] t = "types" -> 8
       [] t = "zeta" -> 9]

RECURSIVE FileLess(_, _)
FileLess(f, g) ==
  IF f = <<>> THEN g # <<>>
  ELSE IF g = <<>> THEN FALSE
  ELSE IF Head(f) = Head(g) THEN FileLess(Tail(f), Tail(g))
  ELSE TokenRank[Head(f)] < TokenRank[Head(g)]

Alphabetical(listing) ==
  \A i, j \in 1..Len(listing) : i < j => FileLess(listing[i], listing[j])

C2_ForwardedAfterBothLimiters ==
  (last.outcome.kind = "proxy" /\ LimiterEnabled(Rules[last.outcome.rule])) =>
    \E i, j \in 1..Len(last.visited) :
      /\ i < j
      /\ last.visited[i].rule = 0 /\ last.visited[i].allowed
      /\ last.visited[j].rule = last.outcome.rule /\ last.visited[j].allowed

\* ------------------------------------------------------------------------
\* a rule the loop neither rejects nor fails on
ValidRule(rule) ==
  /\ ~rule.isNull
  /\ rule.path.t = "string" /\ rule.path.s # <<>>
  /\ rule.target.t = "string" /\ rule.target.s # <<>>
  /\ ~Includes(rule.target.s, PlaceholderOpen)
  /\ ~HandlerThrows(rule)

\* C3 (as claimed): when 'proxies' is an array, the proxy plugin returns
\* without throwing and the forwarding handler of every valid rule of the
\* document is registered, whatever rules precede it.
C3_BadRuleSkippedAlone ==
  (proxyRan # "no" /\ Loaded) =>
    /\ proxyRan = "returned"
    /\ \A k \in 1..Len(Rules) : ValidRule(Rules[k]) => k \in RegisteredRules

\* ------------------------------------------------------------------------
\* the files of settled whose result is one of results, in order
SettledAs(results) ==
  LET sel == SelectSeq(settled, LAMBDA e : e.result \in results)
  IN  [i \in 1..Len(sel) |-> sel[i].file]

Failures == {"throws", "notFunction", "threw", "rejected"}

Successes == {"returned", "resolved"}

\* C4: when loadApiPlugins has returned, every candidate of the listing was
\* imported, in order, whatever became of the candidates before it; the
\* callable of every candidate whose import gave a function was invoked; and
\* plugins holds exactly the candidates whose callable returned or resolved.
C4_FailureIsolated ==
  (pc \in {"resolved", "done"} /\ dir.readable) =>
    /\ attempted = Candidates
    /\ SettledAs(Failures \cup Successes) = Candidates
    /\ invoked = SettledAs({"threw", "rejected"} \cup Successes)
    /\ plugins = [i \in 1..Len(SettledAs(Successes)) |->
                    PluginMetadata(SettledAs(Successes)[i])]

\* a candidate failed and a later one was loaded
C4_Witness ==
  /\ pc = "done"
  /\ \E i, j \in 1..Len(settled) :
       i < j /\ settled[i].result \in Failures /\ settled[j].result \in Successes
  /\ Len(plugins) = 1

\* ------------------------------------------------------------------------
\* C5 (as claimed): the plugins are invoked in the alphabetical order of their
\* filenames.
C5_AlphabeticalInvocation == Alphabetical(invoked)

\* ------------------------------------------------------------------------
\* the layers the plugin files registered
PluginLayers == PluginRoutes \cup ProxyHandlers \cup RuleLimiters

\* C6: at most one callable is in progress, and the loop is then waiting for
\* it: no file is imported or invoked meanwhile; so the layers of the plugins
\* lie in the route table in the order in which the plugins were invoked.
C6_Sequential ==
  /\ Cardinality(running) <= 1
  /\ running # {} => (pc = "await" /\ running = {files[idx]})
  /\ \A i, j \in PluginLayers :
       i < j => InvokedAt(routes[i].owner) <= InvokedAt(routes[j].owner)

\* the route an asynchronous plugin registered after its await precedes the
\* route of the plugin invoked next
C6_Witness ==
  \E i, j \in PluginRoutes :
    /\ i < j
    /\ routes[i].owner # routes[j].owner
    /\ \E f \in FileUniverse :
         PluginName(f) = routes[i].owner /\ routes[i].path = SecondPath(f)

\* ------------------------------------------------------------------------
\* the max of the limiter k, from the configuration
LimiterMax(k) == IF k = 0 THEN GlobalMax ELSE RuleMax(Rules[k])

\* C7: a request adds one to the counter of its client in every limiter that
\* counts it and to no other counter; the limiter allows it exactly when the
\* count, the request included, does not exceed max, and a request it refuses
\* is answered 429 by it and goes no further.
C7_LimiterDecision ==
  [][nreq' # nreq =>
      \A k \in 0..MaxRules, c \in Clients :
        LET vs == {i \in 1..Len(last'.visited) : last'.visited[i].rule = k}
        IN  IF c = last'.client /\ vs # {}
            THEN /\ Cardinality(vs) = 1
                 /\ hits'[k][c] = hits[k][c] + 1
                 /\ \A i \in vs :
                      /\ last'.visited[i].count = hits'[k][c]
                      /\ last'.visited[i].allowed <=> (hits'[k][c] <= LimiterMax(k))
                      /\ ~last'.visited[i].allowed <=>
                           (i = Len(last'.visited) /\ last'.outcome = Outcome("429", k, <<>>))
            ELSE hits'[k][c] = hits[k][c]]_vars

\* a client is refused by the limiter of a rule (max 1) at its second request,
\* after a request of the other client that the same limiter allowed
C7_Witness ==
  /\ last.outcome.kind = "429"
  /\ last.outcome.rule # 0
  /\ hits[last.outcome.rule][last.client] = LimiterMax(last.outcome.rule) + 1
  /\ \E c \in Clients \ {last.client} : hits[last.outcome.rule][c] = 1

\* ------------------------------------------------------------------------
\* the registered rules whose path the request path starts with
Matching(p) == {k \in RegisteredRules : StartsWith(p, Rules[k].path.s)}

TwoOrders == {Document(<<RuleA, RuleAV>>), Document(<<RuleAV, RuleA>>)}

\* C8: a request that a rule forwards is forwarded by the first registered
\* rule of the document whose path it starts with; a request that arrives
\* after the rules are registered and starts with the path of one is forwarded
\* unless a limiter refuses it or a route registered before claims it; and with
\* the rules /a and /a/v in either order, /a/v/x goes to the rule declared
\* first and is counted by the global limiter and by that rule's limiter only.
C8_FirstDeclaredRuleWins ==
  /\ last.outcome.kind = "proxy" =>
       /\ Matching(last.path) # {}
       /\ \A k \in Matching(last.path) : last.outcome.rule <= k
       /\ last.outcome.rule \in Matching(last.path)
  /\ (last.ran = "returned" /\ Matching(last.path) # {}) =>
       last.outcome.kind \in {"proxy", "429", "route"}
  /\ (last.ran = "returned" /\ configFile \in TwoOrders /\ last.path = PathAVX) =>
       /\ last.outcome \in {Outcome("proxy", 1, <<>>), Outcome("429", 1, <<>>),
                            Outcome("429", 0, <<>>)}
       /\ Charged \subseteq {0, 1}
       /\ last.outcome.kind = "proxy" => Charged = {0, 1}

\* /a/v declared first: /a/v/x is forwarded by it, and only its limiter and the
\* global one counted the request
C8_Witness ==
  /\ configFile = Document(<<RuleAV, RuleA>>)
  /\ last.path = PathAVX
  /\ last.outcome = Outcome("proxy", 1, <<>>)
  /\ Charged = {0, 1}
  /\ hits[2] = NoHits[2]

\* ------------------------------------------------------------------------
\* C9 (as claimed): for a document that loads, the number of forwarding
\* handlers registered equals the number of rules with a non-empty path, a
\* non-empty target and no "${" in the target.  Stated for the documents in
\* which the construction of no handler throws, where it already fails.
C9_HandlerCount ==
  (proxyRan # "no" /\ Loaded
     /\ \A k \in 1..Len(Rules) : ~Rules[k].options.hasTarget) =>
    Cardinality(ProxyHandlers) =
      Cardinality({k \in 1..Len(Rules) :
                     /\ Truthy(Rules[k].path)
                     /\ Truthy(Rules[k].target)
                     /\ ~Includes(Rules[k].target.s, PlaceholderOpen)})

\* ------------------------------------------------------------------------
\* C10: loadProxyConfig returns null when the file is absent, does not parse
\* or holds no array in 'proxies', and the whole array otherwise; on null the
\* proxy plugin returns without throwing and registers no limiter and no
\* forwarding handler.
C10_AllOrNothing ==
  /\ IF Loaded
     THEN LoadProxyConfig(configFile) = [isNull |-> FALSE, items |-> configFile.items]
     ELSE LoadProxyConfig(configFile) = NoProxies
  /\ (proxyRan # "no" /\ ~Loaded) =>
       /\ proxyRan = "returned"
       /\ ProxyHandlers = {}
       /\ RuleLimiters = {}

\* 'proxies' is not an array, and the plugin has returned
C10_Witness ==
  /\ proxyRan = "returned"
  /\ configFile.exists /\ configFile.parses /\ ~configFile.isArray
  /\ pc = "done"

\* ------------------------------------------------------------------------
\* a placeholder stands at position i of text: "${", a name of one character
\* or more without "}", and "}"
PlaceholderAt(text, i) ==
  /\ i + 3 <= Len(text)
  /\ text[i] = "$" /\ text[i + 1] = "{" /\ text[i + 2] # "}"
  /\ \E j \in (i + 3)..Len(text) : text[j] = "}"

\* the brace that closes the placeholder at position i
CloseOf(text, i) ==
  CHOOSE j \in (i + 3)..Len(text) :
    text[j] = "}" /\ \A k \in (i + 2)..(j - 1) : text[k] # "}"

\* C11: substituteEnvVariables leaves a text without placeholder as it is and
\* warns about nothing; otherwise the text before the first placeholder is
\* unchanged, the placeholder is replaced by the value of its name when the
\* environment defines it (an empty value included) and is kept, with a
\* warning about the name, when it does not, and what follows the placeholder
\* is substituted in the same way (the value put in is not read again); when
\* the environment defines no variable, the text is returned as it is.
C11_Substitution ==
  substituted.done =>
    LET out == substituted.result
        starts == {i \in 1..Len(fileContent) : PlaceholderAt(fileContent, i)}
    IN  /\ (\A name \in DOMAIN env : env[name] = Undef) => out.text = fileContent
        /\ starts = {} => out = [text |-> fileContent, warned |-> <<>>]
        /\ starts # {} =>
             LET i == CHOOSE a \in starts : \A b \in starts : a <= b
                 j == CloseOf(fileContent, i)
                 name == SubSeq(fileContent, i + 2, j - 1)
                 value == IF name \in DOMAIN env THEN env[name] ELSE Undef
                 rest == SubstituteEnvVariables(
                           SubSeq(fileContent, j + 1, Len(fileContent)), env)
             IN  IF value = Undef
                 THEN /\ out.text = SubSeq(fileContent, 1, j) \o rest.text
                      /\ out.warned = <<name>> \o rest.warned
                 ELSE /\ out.text = SubSeq(fileContent, 1, i - 1) \o value.s \o rest.text
                      /\ out.warned = rest.warned

\* ${X}${Y} with X defined and Y not: the first is replaced, the second kept
\* with a warning
C11_Witness ==
  /\ substituted.done
  /\ fileContent = <<"$", "{", "X", "}", "$", "{", "Y", "}">>
  /\ env[<<"X">>] = Str(<<"v">>) /\ env[<<"Y">>] = Undef
  /\ substituted.result = [text |-> <<"v", "$", "{", "Y", "}">>, warned |-> <<<<"Y">>>>]

\* ------------------------------------------------------------------------
\* no rule of the document overrides its target in its options
NoTargetOverride == \A k \in 1..Len(Rules) : ~Rules[k].options.hasTarget

\* a request was sent
Asked == last.client # "none"

\* C12 (as claimed): a request whose path no registered rule forwards is
\* counted by the global limiter only.  Stated for the documents in which the
\* construction of no handler throws, where it already fails.
C12_OnlyGlobalLimiter ==
  (Asked /\ NoTargetOverride /\ Matching(last.path) = {}) => Charged \subseteq {0}

\* ------------------------------------------------------------------------
\* the window of the limiter of rule k, from the configuration
LimiterWindowMs(k) ==
  LET rule == Rules[k] IN
  IF /\ rule.options.present /\ rule.options.rateLimit.present
     /\ rule.options.rateLimit.windowMs.t = "number"
     /\ rule.options.rateLimit.windowMs.n # 0
  THEN rule.options.rateLimit.windowMs.n
  ELSE DefaultWindowMs

\* C13: a request that the limiter of a rule counts beyond the rule's max is
\* refused by it, whatever the count of the global limiter below its max; the
\* answer is 429 with the body { error: "Too many requests", message } whose
\* message states the max and the window (in seconds) in force for that rule;
\* it differs from the text the global limiter answers, and the request is not
\* forwarded.
C13_RuleMessage ==
  /\ \A i \in 1..Len(last.visited) :
       (last.visited[i].rule # 0 /\ last.visited[i].count > LimiterMax(last.visited[i].rule))
         => last.outcome = Outcome("429", last.visited[i].rule, <<>>)
  /\ (last.outcome.kind = "429" /\ last.outcome.rule # 0) =>
       /\ last.answer.status = 429
       /\ last.answer.body.kind = "json"
       /\ last.answer.body.error = "Too many requests"
       /\ last.answer.body.message =
            "Please slow down. Maximum <max> requests per <seconds> seconds."
       /\ last.answer.body.max = LimiterMax(last.outcome.rule)
       /\ last.answer.body.thousandths = LimiterWindowMs(last.outcome.rule)
       /\ last.answer.body # GlobalMessage
       /\ last.answer.events = <<>>
  /\ (last.outcome.kind = "429" /\ last.outcome.rule = 0) =>
       last.answer = Sent(429, GlobalMessage)

\* the limiter of /a/v (max 1 per second) refuses the second request of a
\* client that the global limiter allowed
C13_Witness ==
  /\ last.outcome.kind = "429" /\ last.outcome.rule # 0
  /\ hits[0][last.client] <= GlobalMax
  /\ last.answer.status = 429
  /\ last.answer.body.max = 1 /\ last.answer.body.thousandths = 1000

C15_BadGateway ==
  (last.outcome.kind = "proxy" /\ last.up \in {"refused", "reset"}
     /\ MountMatches(Rules[last.outcome.rule].path.s, last.path)
     /\ ~Truthy(Rules[last.outcome.rule].options.onError)) =>
    IF last.up = "refused"
    THEN /\ last.answer.status = 502
         /\ last.answer.body.kind = "json"
         /\ last.answer.body.error = "Proxy Error"
         /\ last.answer.body.details
         /\ last.answer.body.path = last.path
    ELSE /\ last.answer.status # 502
         /\ \A i \in 1..Len(last.answer.events) : last.answer.events[i] # "send:502"

\* ------------------------------------------------------------------------
\* the number of times x occurs in seq
Count(seq, x) == Cardinality({i \in 1..Len(seq) : seq[i] = x})

\* the log of the event and the callback of the configuration both ran, once
\* each, the log first
LogThenCustom(events, event) ==
  /\ Count(events, "log:" \o event) = 1
  /\ Count(events, "custom:" \o event) = 1
  /\ \A i, j \in 1..Len(events) :
       (events[i] = "log:" \o event /\ events[j] = "custom:" \o event) => i < j

\* the log of the event ran once and no callback of the configuration
LogOnly(events, event) ==
  /\ Count(events, "log:" \o event) = 1
  /\ Count(events, "custom:" \o event) = 0

\* C16: for each of the events proxyReq, proxyRes and error of a forwarded
\* request, the log of the plugin runs once; when the rule configures a
\* callback for the event, the callback is called once, after the log; an
\* event that does not occur calls nothing.
C16_LogThenCustom ==
  last.outcome.kind = "proxy" =>
    LET options == Rules[last.outcome.rule].options
        events == last.answer.events
        Ran(event, custom) ==
          IF Truthy(custom) THEN LogThenCustom(events, event) ELSE LogOnly(events, event)
        Absent(event) ==
          Count(events, "log:" \o event) = 0 /\ Count(events, "custom:" \o event) = 0
    IN  /\ Ran("proxyReq", options.onProxyReq)
        /\ IF last.up \in {"answers", "reset"}
           THEN Ran("proxyRes", options.onProxyRes) ELSE Absent("proxyRes")
        /\ IF last.up \in {"refused", "reset"}
           THEN Ran("error", options.onError) ELSE Absent("error")

\* the three events of one request, each with its log and its callback
C16_Witness ==
  /\ last.outcome.kind = "proxy"
  /\ last.up = "reset"
  /\ last.answer.events =
       <<"log:proxyReq", "custom:proxyReq", "log:proxyRes", "custom:proxyRes",
         "log:error", "custom:error">>

\* ------------------------------------------------------------------------
\* C17 (as claimed): a request that arrives after the startup and that no
\* limiter refuses and no route, rule or static file claims is answered by the
\* SPA fallback: with index.html when the static directory holds it, with 404
\* and the body { error: "Not Found", message, path } when it does not.
C17_Fallback ==
  (last.at = "done" /\ last.outcome.kind \notin {"429", "route", "proxy", "static"}) =>
    /\ last.outcome.kind = "spa"
    /\ IF indexHtml
       THEN last.answer = Sent(200, FileBody(IndexHtml))
       ELSE /\ last.answer.status = 404
            /\ last.answer.body.kind = "json"
            /\ last.answer.body.error = "Not Found"
            /\ last.answer.body.path = last.path

\* ------------------------------------------------------------------------
\* C19 (as claimed): a request is counted once by the global limiter and by
\* the limiter of one rule at most, the rule that forwards or refuses it.
\* Stated for the documents in which the construction of no handler throws,
\* where it already fails.
C19_OneRuleLimiter ==
  (Asked /\ NoTargetOverride) =>
    /\ Cardinality({i \in 1..Len(last.visited) : last.visited[i].rule = 0}) = 1
    /\ Cardinality({i \in 1..Len(last.visited) : last.visited[i].rule # 0}) <= 1
    /\ \A i \in 1..Len(last.visited) :
         (last.visited[i].rule # 0 /\ last.outcome.kind \in {"proxy", "429"})
           => last.outcome.rule = last.visited[i].rule

\* ------------------------------------------------------------------------
\* the names of the plugins loaded
LoadedNames == {plugins[i].name : i \in 1..Len(plugins)}

\* C20: a request to the path of a route that a loaded plugin has registered
\* is answered neither by the static-file handler nor by the SPA fallback,
\* whether or not the static directory holds a file at that path.
C20_PluginRouteFirst ==
  [][nreq' # nreq =>
      ((\E i \in PluginRoutes :
          routes[i].path = last'.path /\ routes[i].owner \in LoadedNames)
        => last'.outcome.kind \notin {"static", "spa"})]_vars

\* /p is a route of hello.ts and a file of the static directory: when the
\* startup is over, the route answers
C20_Witness ==
  /\ last.at = "done"
  /\ last.path \in StaticFiles
  /\ last.outcome = Outcome("route", 0, <<"hello">>)
  /\ <<"hello">> \in LoadedNames
  /\ Positions("static") # {}

\* ------------------------------------------------------------------------
\* C18: whatever the interleaving of the requests in flight, no limiter
\* allows more than max requests of a client in the window, and it allows no
\* request that it has not counted.
C18_NeverMoreThanMax ==
  \A k \in 0..Len(Rules), c \in Clients :
    /\ allowed[k][c] <= LimiterMax(k)
    /\ allowed[k][c] <= hits[k][c]

\* two requests of one client are counted by the limiter of /a/v (max 1) and
\* neither is decided yet
C18_Witness ==
  \E r1, r2 \in 1..MaxInflight :
    /\ r1 # r2
    /\ inflight[r1].client = inflight[r2].client
    /\ inflight[r1].stage = "counted" /\ inflight[r2].stage = "counted"
    /\ inflight[r1].at = inflight[r2].at
    /\ routes[inflight[r1].at].rule = 1
    /\ hits[1][inflight[r1].client] = 2

\* ------------------------------------------------------------------------
\* the window of the limiter k, from the configuration
LimiterWindow(k) == IF k = 0 THEN GlobalWindowMs ELSE LimiterWindowMs(k)

\* C21: a request that a limiter counts when the window of its client is over
\* (or when the client has none) is counted as the first of a new window of
\* windowMs, whatever the count of the window before, and is allowed; within
\* the window the count goes on from the count before, the window's end stays,
\* and the request is allowed exactly when the count does not exceed max.
C21_WindowReset ==
  [][nreq' # nreq =>
      \A i \in 1..Len(last'.visited) :
        LET k == last'.visited[i].rule
            c == last'.client
            count == last'.visited[i].count
        IN  /\ IF resetTime[k][c] <= now'
               THEN /\ count = 1
                    /\ last'.visited[i].allowed
                    /\ resetTime'[k][c] = now' + LimiterWindow(k)
               ELSE /\ count = hits[k][c] + 1
                    /\ resetTime'[k][c] = resetTime[k][c]
            /\ hits'[k][c] = count
            /\ last'.visited[i].allowed <=> (count <= LimiterMax(k))]_vars

\* the limiter of /a/v (max 1 per second) has refused the client; a second
\* later it forwards the client's next request, the first of a new window
C21_Witness ==
  /\ <<1, last.client>> \in denied
  /\ last.outcome = Outcome("proxy", 1, <<>>)
  /\ hits[1][last.client] = 1
  /\ hits[0][last.client] \in {3, GlobalMax + 2}
  /\ resetTime[1][last.client] = now + 1000

\* ------------------------------------------------------------------------
\* the value of key ("windowMs", "max") that the rateLimit of rule configures,
\* or else the default
Configured(rule, key, default) ==
  IF rule.options.present /\ rule.options.rateLimit.present
     /\ rule.options.rateLimit[key].t = "number"
  THEN rule.options.rateLimit[key].n
  ELSE default

\* C22 (as claimed): one global limiter is registered, of 15 minutes and max
\* 1000; for each registered rule, no limiter when rateLimit.enabled is false
\* and otherwise one limiter, mounted at the rule's path, whose window and max
\* are the windowMs and max the rule configures, 60000 ms and 100 standing for
\* the one that is not configured.
C22_LimiterPerRule ==
  /\ \E i \in Positions("limiter") :
       /\ {j \in Positions("limiter") : routes[j].rule = 0} = {i}
       /\ routes[i].mount = Root
       /\ routes[i].windowMs = GlobalWindowMs
       /\ routes[i].max = GlobalMax
  /\ \A k \in RegisteredRules :
       LET mine == {i \in RuleLimiters : routes[i].rule = k}
           rateLimit == Rules[k].options.rateLimit
       IN  IF Rules[k].options.present /\ rateLimit.present /\ rateLimit.enabled = Bool(FALSE)
           THEN mine = {}
           ELSE /\ Cardinality(mine) = 1
                /\ \A i \in mine :
                     /\ routes[i].mount = Rules[k].path.s
                     /\ routes[i].windowMs = Configured(Rules[k], "windowMs", DefaultWindowMs)
                     /\ routes[i].max = Configured(Rules[k], "max", DefaultMax)

\* ------------------------------------------------------------------------
\* C23: a request that the limiter of a rule refuses was counted and allowed
\* by the global limiter first: it adds one to the count of its client in the
\* global limiter.
C23_RefusedYetCounted ==
  [][(nreq' # nreq /\ last'.outcome.kind = "429" /\ last'.outcome.rule # 0) =>
       /\ Len(last'.visited) >= 2
       /\ last'.visited[1] = [rule |-> 0, count |-> hits[0][last'.client] + 1,
                              allowed |-> TRUE]
       /\ hits'[0][last'.client] = hits[0][last'.client] + 1]_vars

\* the second request of a client to /a/v/x: the global limiter counts it as
\* its second, the limiter of /a/v (max 1) refuses it
C23_Witness ==
  /\ last.outcome = Outcome("429", 1, <<>>)
  /\ last.visited = <<[rule |-> 0, count |-> 2, allowed |-> TRUE],
                      [rule |-> 1, count |-> 2, allowed |-> FALSE]>>
  /\ hits[0][last.client] = 2

\* ------------------------------------------------------------------------
\* the extension of a filename
Extension(file) == file[Len(file)]

\* loader.*, types.* and *.d.ts
Excluded(file) ==
  \/ file[1] \in {"loader", "types"}
  \/ (Len(file) >= 2 /\ file[Len(file) - 1] = ".d" /\ Extension(file) = ".ts")

\* the variant of the run: .js if the directory holds a .js file, else .ts
Variant(listing) ==
  IF \E i \in 1..Len(listing) : Extension(listing[i]) = ".js" THEN ".js" ELSE ".ts"

C25_CompleteTable ==
  (pc = "done" /\ nreq = 1 /\ last.at = "await") =>
    last.outcome = Dispatch(routes, 1, last.client, last.path, NoHits, <<>>).outcome

\* ------------------------------------------------------------------------
\* C26 (as claimed): when the proxy plugin has run, a rule whose rate limiting
\* is not disabled has its limiter in the route table exactly when its
\* forwarding handler is registered.
C26_AtomicRegistration ==
  (proxyRan # "no" /\ Loaded) =>
    \A k \in 1..Len(Rules) :
      (~Rules[k].isNull /\ LimiterEnabled(Rules[k])) =>
        ((\E i \in RuleLimiters : routes[i].rule = k) <=> k \in RegisteredRules)

\* ------------------------------------------------------------------------
\* C27 (as claimed): when the loading is over, every layer that a plugin file
\* registered belongs to a plugin counted as loaded.
C27_FailedPluginLeavesNothing ==
  pc \in {"resolved", "done"} =>
    \A i \in PluginLayers : routes[i].owner \in LoadedNames

\* ------------------------------------------------------------------------
\* C28 (as claimed): a request that a rule forwards is sent to the target of
\* the rule, a text without "${", whatever the options of the rule hold; its
\* path starts with the path of the rule, and the log of the plugin ran.
C28_OwnTarget ==
  last.outcome.kind = "proxy" =>
    LET rule == Rules[last.outcome.rule] IN
    /\ last.answer.target = rule.target
    /\ ~Includes(last.answer.target.s, PlaceholderOpen)
    /\ StartsWith(last.path, rule.path.s)
    /\ Count(last.answer.events, "log:proxyReq") = 1

\* ------------------------------------------------------------------------
\* C29: a request to the path of the health route that the global limiter
\* allows is answered by the health route of the server, with its body,
\* whatever routes the plugins registered and whatever the rules forward; no
\* limiter of a rule counts it.
C29_HealthFirst ==
  (last.path = HealthPath /\ last.outcome.kind # "429") =>
    /\ last.outcome = Outcome("route", 0, Server)
    /\ last.answer = Sent(200, HealthBody)
    /\ Charged = {0}

\* the startup is over, a plugin has registered a route on the path of the
\* health route and a rule forwards that path: the health route answers
C29_Witness ==
  /\ last.at = "done"
  /\ last.path = HealthPath
  /\ last.answer = Sent(200, HealthBody)
  /\ \E i \in PluginRoutes : routes[i].path = HealthPath
  /\ \E j \in ProxyHandlers : PathFilter(routes[j].path, HealthPath)

\* ------------------------------------------------------------------------
\* C30: when every step of the loading ends, the promise of loadApiPlugins is
\* never rejected, and in the end it is resolved, the then callback has run
\* and the static-file handler and the SPA fallback are in the route table for
\* good, whether the directory could be read or not and whatever became of
\* the plugins.
C30_StartupCompletes ==
  /\ [](pc # "rejected")
  /\ <>[](pc = "done" /\ Positions("static") # {} /\ Positions("spa") # {})

\* every plugin of the directory failed, one of them the proxy plugin, and the
\* static-file handler and the SPA fallback are registered
C30_Witness ==
  /\ pc = "done"
  /\ Len(settled) = 2
  /\ \A i \in 1..Len(settled) : settled[i].result \in Failures
  /\ proxyRan = "threw"
  /\ plugins = <<>>
  /\ Positions("static") # {} /\ Positions("spa") # {}

====
